---- MODULE Spec2Model ----
(***************************************************************************)
(* Model of the macros of rust_examples (src/rust_examples/src/main.rs,    *)
(* src/rust_examples/src/lib.rs): one macro invocation is expanded at      *)
(* compile time and the code it emitted is then run.                       *)
(*                                                                         *)
(* An expression argument is a token tree that the `expr` fragment parser  *)
(* has already grouped ($x:expr binds `2 * 3` as one node).  Strings are   *)
(* sequences of one-character strings.                                     *)
(***************************************************************************)
EXTENDS Integers, Sequences, FiniteSets, TLC

VARIABLES
  macro,   \* the macro the program invokes ("none" before it is chosen)
  phase,   \* "idle", "expanding", "expanded", "failed", "running", "done", "panicked"
  call,    \* the invocation's tokens as written in the program
  toks,    \* the tokens of the macro invocation still to be expanded
  item,    \* the declaration a derive or attribute macro is applied to
  out,     \* what the expansion has emitted
  steps,   \* applications of a recursive rule so far
  n,       \* the caller's counter that the expression { n += 1; n } bumps
  frame,   \* the running call of a wrapped function
  result,  \* the value the emitted code produced
  trace,   \* the events of the run, in order
  diag     \* the compiler's diagnostic when expansion fails

vars == <<macro, phase, call, toks, item, out, steps, n, frame, result, trace, diag>>

\* ------------------------------------------------------------------ bounds
MaxArgs == 3
MaxFields == 3
MaxIdents == 2

\* ------------------------------------------------------------- expressions
\* k = "int": the literal a;  "add": a + b;  "mul": a * b;
\* "tick": the block { n += 1; n } over a counter n of the caller;
\* "str": the literal s;  "bool": a = 1 for true;  "f32": a / 10^b.
Expr(k, a, b, s) == [k |-> k, a |-> a, b |-> b, s |-> s]
Lit(v) == Expr("int", v, 0, <<>>)
Add(x, y) == Expr("add", x, y, <<>>)
Mul(x, y) == Expr("mul", x, y, <<>>)
Tick == Expr("tick", 0, 0, <<>>)
Str(s) == Expr("str", 0, 0, s)
Bool(t) == Expr("bool", t, 0, <<>>)
F32(m, d) == Expr("f32", m, d, <<>>)
NoExpr == Expr("none", 0, 0, <<>>)

\* values: ty = "int" (v), "bool" (v = 1 for true), "str" (s), "f32" (v / 10^d)
Val(ty, v, d, s) == [ty |-> ty, v |-> v, d |-> d, s |-> s]
IntVal(v) == Val("int", v, 0, <<>>)
UnitVal == Val("unit", 0, 0, <<>>)

\* Evaluating e with the counter at c: the value and the counter afterwards.
Eval(e, c) ==
  CASE e.k = "int" -> [v |-> IntVal(e.a), n |-> c]
    [] e.k = "add" -> [v |-> IntVal(e.a + e.b), n |-> c]
    [] e.k = "mul" -> [v |-> IntVal(e.a * e.b), n |-> c]
    [] e.k = "tick" -> [v |-> IntVal(c + 1), n |-> c + 1]
    [] e.k = "str" -> [v |-> Val("str", 0, 0, e.s), n |-> c]
    [] e.k = "bool" -> [v |-> Val("bool", e.a, 0, <<>>), n |-> c]
    [] e.k = "f32" -> [v |-> Val("f32", e.a, e.b, <<>>), n |-> c]

\* ------------------------------------------------------------------ tokens
Tok(t, e, id) == [t |-> t, e |-> e, id |-> id]
TExpr(e) == Tok("expr", e, "")
Comma == Tok("comma", NoExpr, "")
Semi == Tok("semi", NoExpr, "")
Ident(id) == Tok("ident", NoExpr, id)

RECURSIVE Join(_, _)
\* the token sequence s1 sep s2 sep ... sk
Join(s, sep) ==
  IF Len(s) = 0 THEN <<>>
  ELSE IF Len(s) = 1 THEN <<s[1]>>
  ELSE <<s[1], sep>> \o Join(Tail(s), sep)

CommaList(es) == Join([i \in 1..Len(es) |-> TExpr(es[i])], Comma)

\* ts is e (sep e)* : expression tokens at the odd places, sep at the even
IsSeparated(ts, sep) ==
  /\ Len(ts) % 2 = 1
  /\ \A i \in 1..Len(ts) : IF i % 2 = 1 THEN ts[i].t = "expr" ELSE ts[i] = sep

\* the expressions of a separated list
Elements(ts) == [i \in 1..((Len(ts) + 1) \div 2) |-> ts[2 * i - 1].e]

NoOut == [kind |-> "none"]
NoItem == [kind |-> "none"]
NoFrame == [pc |-> 0]
Diag(msg, a, b) == [msg |-> msg, a |-> a, b |-> b]
NoDiag == Diag("", 0, 0)
NoRule == Diag("no rules expected this token in macro call", 0, 0)

\* ------------------------------------------------------------- find_min!
\* rule 1: ($x:expr)
FindMinBase(ts) == Len(ts) = 1 /\ ts[1].t = "expr"

\* rule 2: ($x:expr, $($y:expr),+)
FindMinRec(ts) ==
  /\ Len(ts) >= 3
  /\ ts[1].t = "expr"
  /\ ts[2] = Comma
  /\ IsSeparated(SubSeq(ts, 3, Len(ts)), Comma)

\* the tokens of the inner invocation find_min!($($y), +)
\* the inner invocation written with one argument too few
FindMinRestSkips(ts) == CommaList(Tail(Elements(SubSeq(ts, 3, Len(ts)))))
FindMinRest(ts) == CommaList(Elements(SubSeq(ts, 3, Len(ts))))

RECURSIVE MinChainMax(_, _, _)
\* the template written with std::cmp::max
MinChainMax(xs, base, c) ==
  IF Len(xs) = 0 THEN Eval(base, c)
  ELSE LET l == Eval(xs[1], c)
           r == MinChainMax(Tail(xs), base, l.n)
       IN [v |-> IF r.v.v > l.v.v THEN r.v ELSE l.v, n |-> r.n]

RECURSIVE MinChain(_, _, _)
\* std::cmp::min(x1, std::cmp::min(x2, ... base)): the arguments are evaluated
\* left to right, each once
MinChain(xs, base, c) ==
  IF Len(xs) = 0 THEN Eval(base, c)
  ELSE LET l == Eval(xs[1], c)
           r == MinChain(Tail(xs), base, l.n)
       IN [v |-> IF r.v.v < l.v.v THEN r.v ELSE l.v, n |-> r.n]

IntExprs == {Lit(5), Mul(2, 3), Lit(4), Add(1, 2), Tick}

RECURSIVE SeqsUpTo(_, _)
SeqsUpTo(S, k) ==
  IF k = 0 THEN {<<>>}
  ELSE LET shorter == SeqsUpTo(S, k - 1)
       IN shorter \cup {Append(s, x) : s \in {t \in shorter : Len(t) = k - 1}, x \in S}

Init ==
  /\ macro = "none"
  /\ phase = "idle"
  /\ call = <<>>
  /\ toks = <<>>
  /\ item = NoItem
  /\ out = NoOut
  /\ steps = 0
  /\ n = 0
  /\ frame = NoFrame
  /\ result = UnitVal
  /\ trace = <<>>
  /\ diag = NoDiag

\* find_min!(e1, ..., ek) is written in the program
InvokeFindMin ==
  /\ phase = "idle"
  /\ \E es \in SeqsUpTo(IntExprs, MaxArgs), trailing \in BOOLEAN :
       call' = CommaList(es) \o (IF trailing THEN <<Comma>> ELSE <<>>)
  /\ toks' = call'
  /\ macro' = "find_min"
  /\ phase' = "expanding"
  /\ out' = [kind |-> "min", xs |-> <<>>, base |-> NoExpr]
  /\ UNCHANGED <<item, steps, n, frame, result, trace, diag>>

\* one application of the rules of find_min! to the pending invocation
ExpandFindMin ==
  /\ macro = "find_min"
  /\ phase = "expanding"
  /\ IF FindMinBase(toks)
       THEN /\ out' = [out EXCEPT !.base = toks[1].e]
            /\ toks' = <<>>
            /\ phase' = "expanded"
            /\ steps' = steps
            /\ diag' = diag
       ELSE IF FindMinRec(toks)
         THEN /\ out' = [out EXCEPT !.xs = Append(@, toks[1].e)]
              /\ toks' = FindMinRest(toks)
              /\ steps' = steps + 1
              /\ UNCHANGED <<phase, diag>>
         ELSE /\ phase' = "failed"
              /\ diag' = NoRule
              /\ out' = NoOut
              /\ UNCHANGED <<toks, steps>>
  /\ UNCHANGED <<macro, call, item, n, frame, result, trace>>

\* println!("{}", find_min!(...)) runs
RunFindMin ==
  /\ macro = "find_min"
  /\ phase = "expanded"
  /\ LET r == MinChain(out.xs, out.base, n)
     IN /\ result' = r.v
        /\ n' = r.n
  /\ phase' = "done"
  /\ UNCHANGED <<macro, call, toks, item, out, steps, frame, trace, diag>>

\* ------------------------------------------------- Display (format!("{}"))
Digits == <<"0", "1", "2", "3", "4", "5", "6", "7", "8", "9">>

RECURSIVE NatToStr(_)
NatToStr(i) ==
  IF i < 10 THEN <<Digits[i + 1]>>
  ELSE NatToStr(i \div 10) \o <<Digits[(i % 10) + 1]>>

IntToStr(i) == IF i < 0 THEN <<"-">> \o NatToStr(-i) ELSE NatToStr(i)

RECURSIVE Pow10(_)
Pow10(d) == IF d = 0 THEN 1 ELSE 10 * Pow10(d - 1)

RECURSIVE Pad(_, _)
\* s with zeros in front up to d characters
Pad(s, d) == IF Len(s) >= d THEN s ELSE Pad(<<"0">> \o s, d)

RECURSIVE F32ToStr(_, _)
\* the shortest decimal of m / 10^d (m >= 0, at most six significant digits):
\* no trailing zeros, and no fraction at all for a whole number
F32ToStr(m, d) ==
  IF d = 0 THEN NatToStr(m)
  ELSE IF m % 10 = 0 THEN F32ToStr(m \div 10, d - 1)
  ELSE NatToStr(m \div Pow10(d)) \o <<".">> \o Pad(NatToStr(m % Pow10(d)), d)

\* Display::fmt of a value, as characters
Display(v) ==
  CASE v.ty = "int" -> IntToStr(v.v)
    [] v.ty = "bool" -> IF v.v = 1 THEN <<"t", "r", "u", "e">> ELSE <<"f", "a", "l", "s", "e">>
    [] v.ty = "str" -> v.s
    [] v.ty = "f32" -> F32ToStr(v.v, v.d)

StrVal(s) == Val("str", 0, 0, s)

\* ------------------------------------------------- the emitted statements
\* op = "new": let mut v = Vec::new();   "reserve": v.reserve(c);
\* "for_push": for _ in 0..c { v.push(e); }   "push": v.push(e);
\* "push_fmt": v.push(format!("{}", e));   "yield": the block's value, v
Stmt(op, e, c) == [op |-> op, e |-> e, c |-> c]
New == Stmt("new", NoExpr, NoExpr)
Yield == Stmt("yield", NoExpr, NoExpr)

RECURSIVE PushTimes(_, _, _, _)
\* k iterations of the loop body v.push(e)
PushTimes(k, e, v, c) ==
  IF k <= 0 THEN [vec |-> v, n |-> c]
  ELSE LET r == Eval(e, c) IN PushTimes(k - 1, e, Append(v, r.v), r.n)

\* one statement run on the vector v with the counter at c
ExecStmt(st, v, c) ==
  CASE st.op = "new" -> [vec |-> <<>>, n |-> c]
    [] st.op = "reserve" -> [vec |-> v, n |-> Eval(st.c, c).n]
    [] st.op = "for_push" ->
         LET k == Eval(st.c, c) IN PushTimes(k.v.v, st.e, v, k.n)
    [] st.op = "push" ->
         LET r == Eval(st.e, c) IN [vec |-> Append(v, r.v), n |-> r.n]
    [] st.op = "push_fmt" ->
         LET r == Eval(st.e, c) IN [vec |-> Append(v, StrVal(Display(r.v))), n |-> r.n]
    [] st.op = "yield" -> [vec |-> v, n |-> c]

RECURSIVE ExecBlock(_, _, _)
ExecBlock(stmts, v, c) ==
  IF Len(stmts) = 0 THEN [vec |-> v, n |-> c]
  ELSE LET r == ExecStmt(stmts[1], v, c) IN ExecBlock(Tail(stmts), r.vec, r.n)

Block(stmts) == [kind |-> "block", stmts |-> stmts]

\* ------------------------------------------------------------- vec_strs!
\* the pattern ( $( $element:expr ),* ): no trailing comma
VecStrsMatches(ts) == Len(ts) = 0 \/ IsSeparated(ts, Comma)

VecStrsBindings(ts) == IF Len(ts) = 0 THEN <<>> ELSE Elements(ts)

\* the repetition transcribed for all elements but the last
VecStrsDropsLast(es) ==
  Block(<<New>> \o [i \in 1..(Len(es) - 1) |-> Stmt("push_fmt", es[i], NoExpr)] \o <<Yield>>)

\* { let mut v = Vec::new(); $( v.push(format!("{}", $element)); )* v }
VecStrsTemplate(es) ==
  Block(<<New>> \o [i \in 1..Len(es) |-> Stmt("push_fmt", es[i], NoExpr)] \o <<Yield>>)

\* -------------------------------------------------------------- vector!
\* rule 1: ($elem:expr; $count:expr)
VectorCountForm(ts) ==
  Len(ts) = 3 /\ ts[1].t = "expr" /\ ts[2] = Semi /\ ts[3].t = "expr"

VectorCountTemplate(elem, count) ==
  Block(<<New, Stmt("reserve", NoExpr, count), Stmt("for_push", elem, count), Yield>>)

\* ts without the one comma $(,)? allows at its end
DropTrailingComma(ts) ==
  IF Len(ts) > 0 /\ ts[Len(ts)] = Comma THEN SubSeq(ts, 1, Len(ts) - 1) ELSE ts

\* rule 2: ($($elem:expr),* $(,)?)
VectorListForm(ts) == VecStrsMatches(DropTrailingComma(ts))

VectorListTemplate(es) ==
  Block(<<New>> \o [i \in 1..Len(es) |-> Stmt("push", es[i], NoExpr)] \o <<Yield>>)

\* the rules in declaration order; the first that matches wins
VectorExpand(ts) ==
  IF VectorCountForm(ts) THEN VectorCountTemplate(ts[1].e, ts[3].e)
  ELSE IF VectorListForm(ts) THEN VectorListTemplate(VecStrsBindings(DropTrailingComma(ts)))
  ELSE NoOut

\* ----------------------------------------------------------- repeat_two!
IsIdents(ts) == \A i \in 1..Len(ts) : ts[i].t = "ident"

\* the place of the first comma of ts, 0 when it has none
FirstComma(ts) ==
  IF \E i \in 1..Len(ts) : ts[i] = Comma
    THEN CHOOSE i \in 1..Len(ts) : ts[i] = Comma /\ \A j \in 1..(i - 1) : ts[j] # Comma
    ELSE 0

\* the pattern ($($i:ident)*, $($i2:ident)*)
RepeatTwoMatches(ts) ==
  /\ FirstComma(ts) > 0
  /\ IsIdents(SubSeq(ts, 1, FirstComma(ts) - 1))
  /\ IsIdents(SubSeq(ts, FirstComma(ts) + 1, Len(ts)))

RepeatTwoI(ts) == SubSeq(ts, 1, FirstComma(ts) - 1)
RepeatTwoI2(ts) == SubSeq(ts, FirstComma(ts) + 1, Len(ts))

Let(id) == [decl |-> "let", id |-> id]

RECURSIVE Pairs(_, _)
\* $( let $i: (); let $i2: (); )* for groups of one length
Pairs(is, i2s) ==
  IF Len(is) = 0 THEN <<>>
  ELSE <<Let(is[1].id), Let(i2s[1].id)>> \o Pairs(Tail(is), Tail(i2s))

Mismatch(a, b) == Diag("meta-variable i repeats a times, but i2 repeats b times", a, b)

Shorter(a, b) == IF Len(a) < Len(b) THEN Len(a) ELSE Len(b)

\* a transcription that stops at the end of the shorter group
RepeatTwoTruncates(is, i2s) ==
  [ok |-> TRUE,
   decls |-> Pairs(SubSeq(is, 1, Shorter(is, i2s)), SubSeq(i2s, 1, Shorter(is, i2s))),
   diag |-> NoDiag]

\* the transcription of the template: both variables repeat in lockstep
RepeatTwoTemplate(is, i2s) ==
  IF Len(is) # Len(i2s)
    THEN [ok |-> FALSE, decls |-> <<>>, diag |-> Mismatch(Len(is), Len(i2s))]
    ELSE [ok |-> TRUE, decls |-> Pairs(is, i2s), diag |-> NoDiag]

\* --------------------------------------------------------- reverse_exprs!
RECURSIVE ParseTerminated(_)
\* Punctuated::<Expr, Token![,]>::parse_terminated: expressions with commas
\* between them and, optionally, one after the last
ParseTerminated(ts) ==
  IF Len(ts) = 0 THEN [ok |-> TRUE, exprs |-> <<>>]
  ELSE IF ts[1].t # "expr" THEN [ok |-> FALSE, exprs |-> <<>>]
  ELSE IF Len(ts) = 1 THEN [ok |-> TRUE, exprs |-> <<ts[1].e>>]
  ELSE IF ts[2] # Comma THEN [ok |-> FALSE, exprs |-> <<>>]
  ELSE LET r == ParseTerminated(SubSeq(ts, 3, Len(ts)))
       IN [ok |-> r.ok, exprs |-> IF r.ok THEN <<ts[1].e>> \o r.exprs ELSE <<>>]

\* the vector left as collected
NotReversed(s) == s

\* expr_vec.reverse()
Reverse(s) == [i \in 1..Len(s) |-> s[Len(s) + 1 - i]]

\* quote! {(#(#expr_vec),*)}
ReverseExprsQuote(exprVec) == [kind |-> "paren", items |-> exprVec]

reverse_exprs(input) ==
  LET parsed == ParseTerminated(input)
  IN IF parsed.ok
       THEN [ok |-> TRUE, output |-> ReverseExprsQuote(Reverse(parsed.exprs))]
       ELSE [ok |-> FALSE, output |-> NoOut]

RECURSIVE EvalAll(_, _)
\* the values of es, evaluated left to right from the counter c
EvalAll(es, c) ==
  IF Len(es) = 0 THEN [vals |-> <<>>, n |-> c]
  ELSE LET r == Eval(es[1], c)
           rest == EvalAll(Tail(es), r.n)
       IN [vals |-> <<r.v>> \o rest.vals, n |-> rest.n]

\* the value of ( items ): () is the unit, (e) is e, anything longer a tuple
EvalParen(items, c) ==
  LET r == EvalAll(items, c)
  IN [v |-> IF Len(items) = 0 THEN UnitVal
            ELSE IF Len(items) = 1 THEN r.vals[1]
            ELSE [ty |-> "tuple", items |-> r.vals],
      n |-> r.n]

\* ------------------------------------------------------- #[derive(MyDebug)]
Arg(k, id, ix) == [k |-> k, id |-> id, ix |-> ix]
Stringify(id) == Arg("stringify", id, 0)
SelfField(id) == Arg("self.field", id, 0)
SelfIndex(ix) == Arg("self.index", "", ix)
Usize(ix) == Arg("usize", "", ix)

PrintStmt(mac, fmt, args) == [mac |-> mac, fmt |-> fmt, args |-> args]

\* print!("{}: {:?}, ", stringify!(#field_name), self.#field_name);
NamedFieldStmt(f) == PrintStmt("print", "{}: {:?}, ", <<Stringify(f), SelfField(f)>>)

\* print!("{}: {:?}, ", #i, self.#index);
UnnamedFieldStmt(i) == PrintStmt("print", "{}: {:?}, ", <<Usize(i), SelfIndex(i)>>)

UnitStmt == PrintStmt("print", "(unit struct)", <<>>)

OpenStmt(name) == PrintStmt("print", "{}: {{ ", <<Stringify(name)>>)
CloseStmt == PrintStmt("println", "}}", <<>>)

\* positional fields numbered from one
FieldStmtsFromOne(fields) ==
  CASE fields.shape = "named" ->
         [i \in 1..Len(fields.names) |-> NamedFieldStmt(fields.names[i])]
    [] fields.shape = "unnamed" ->
         [i \in 1..Len(fields.names) |-> UnnamedFieldStmt(i)]
    [] fields.shape = "unit" -> <<UnitStmt>>

\* the match on data_struct.fields
FieldStmts(fields) ==
  CASE fields.shape = "named" ->
         [i \in 1..Len(fields.names) |-> NamedFieldStmt(fields.names[i])]
    [] fields.shape = "unnamed" ->
         [i \in 1..Len(fields.names) |-> UnnamedFieldStmt(i - 1)]
    [] fields.shape = "unit" -> <<UnitStmt>>

\* impl MyDebug for #name { fn my_fmt(&self) { ... } }
MyDebugImpl(name, fields) ==
  [kind |-> "impl", trait |-> "MyDebug", for |-> name, method |-> "my_fmt",
   body |-> <<OpenStmt(name)>> \o fields \o <<CloseStmt>>]

StructsOnly == Diag("MyDebug can only be derived for structs", 0, 0)

\* the fallback arm emitting an implementation without field statements
my_debug_derive_lenient(ast) ==
  IF ast.data = "struct"
    THEN [ok |-> TRUE, code |-> MyDebugImpl(ast.ident, FieldStmts(ast.fields)), diag |-> NoDiag]
    ELSE [ok |-> TRUE, code |-> MyDebugImpl(ast.ident, <<>>), diag |-> NoDiag]

my_debug_derive(ast) ==
  IF ast.data = "struct"
    THEN [ok |-> TRUE, code |-> MyDebugImpl(ast.ident, FieldStmts(ast.fields)), diag |-> NoDiag]
    ELSE [ok |-> FALSE, code |-> NoOut, diag |-> StructsOnly]

\* ------------------------------------------------------------ #[log_call]
Println(line, fn) == [s |-> "println", line |-> line, fn |-> fn, block |-> <<>>]
LetResult(block) == [s |-> "let result", line |-> "", fn |-> "", block |-> block]
ResultTail == [s |-> "result", line |-> "", fn |-> "", block |-> <<>>]
\* the end of a body that has no tail expression: its value is ()
FallOff == [s |-> "end", line |-> "", fn |-> "", block |-> <<>>]

\* the wrapper with `result;` for its last line: the body has no tail expression
log_call_no_tail(inputFn) ==
  [kind |-> "fn", name |-> inputFn.name, checks |-> inputFn.checks,
   body |-> <<Println("Calling function", inputFn.name),
              LetResult(inputFn.block),
              Println("Function returned", inputFn.name)>>]

\* #fn_vis #fn_sig { println!(...); let result = #fn_block; println!(...); result }
log_call(inputFn) ==
  [kind |-> "fn", name |-> inputFn.name, checks |-> inputFn.checks,
   body |-> <<Println("Calling function", inputFn.name),
              LetResult(inputFn.block),
              Println("Function returned", inputFn.name),
              ResultTail>>]

I32Max == 2147483647
I32Min == -I32Max - 1

\* a + b on i32: with overflow checks an overflow panics, without it the sum
\* wraps around (the sum is never formed outside the i32 range)
AddI32(a, b, checks) ==
  IF b > 0 /\ a > I32Max - b
    THEN IF checks THEN [panic |-> TRUE, v |-> 0]
         ELSE [panic |-> FALSE, v |-> (a + I32Min) + (b + I32Min)]
  ELSE IF b < 0 /\ a < I32Min - b
    THEN IF checks THEN [panic |-> TRUE, v |-> 0]
         ELSE [panic |-> FALSE, v |-> (a - I32Min) + (b - I32Min)]
  ELSE [panic |-> FALSE, v |-> a + b]

RECURSIVE EvalBlock(_, _, _, _, _)
\* The block of a function of (a, b).  Its statements: "return 0 if a < 0" is
\* if a < 0 { return 0; };  "tick" is n += 1;  "a + b" is the tail expression.
\* ctl = "value": the block evaluated to v;  "return": a return statement left
\* the function with v;  "panic": the thread unwinds.
EvalBlock(block, a, b, c, checks) ==
  LET st == IF Len(block) > 0 THEN block[1] ELSE "end"
  IN CASE st = "return 0 if a < 0" ->
            IF a < 0 THEN [ctl |-> "return", v |-> IntVal(0), n |-> c]
            ELSE EvalBlock(Tail(block), a, b, c, checks)
       [] st = "tick" -> EvalBlock(Tail(block), a, b, c + 1, checks)
       [] st = "a + b" ->
            LET r == AddI32(a, b, checks)
            IN IF r.panic THEN [ctl |-> "panic", v |-> UnitVal, n |-> c]
               ELSE [ctl |-> "value", v |-> IntVal(r.v), n |-> c]
       [] st = "end" -> [ctl |-> "value", v |-> UnitVal, n |-> c]

\* the call f(a, b) of the function as written, without the attribute
CallPlain(fn, a, b, c) ==
  LET r == EvalBlock(fn.block, a, b, c, fn.checks)
  IN [returns |-> r.ctl # "panic", v |-> r.v, n |-> r.n]

Event(ev, fn) == [ev |-> ev, fn |-> fn]

\* ----------------------------------------------------------- invocations
DisplayExprs ==
  {Lit(1), Str(<<"a">>), Bool(1), F32(314159, 5), Tick}

Names == {"a", "u"}

IdentSeqs == {[i \in 1..Len(s) |-> Ident(s[i])] : s \in SeqsUpTo(Names, MaxIdents)}

Idents(s) == [i \in 1..Len(s) |-> Ident(s[i])]

\* the invocations main() makes
MainVecStrs == CommaList(<<Lit(1), Str(<<"a">>), Bool(1), F32(314159, 5)>>)
MainVector == CommaList(<<Lit(1), Lit(3), Lit(5), Lit(5), Lit(6), Lit(3)>>) \o <<Comma>>
MainRepeatTwo ==
  Idents(<<"a", "b", "c", "d", "e", "f">>) \o <<Comma>> \o Idents(<<"u", "v", "w", "x", "y", "z">>)
\* the invocation main() keeps in a comment: "Not allowed"
MainRepeatTwoBad ==
  Idents(<<"a", "b", "c", "d", "e", "f">>) \o <<Comma>> \o Idents(<<"x", "y", "z">>)

Trailing(ts, t) == IF t THEN ts \o <<Comma>> ELSE ts

Start(m, ts) ==
  /\ phase = "idle"
  /\ macro' = m
  /\ call' = ts
  /\ toks' = ts
  /\ phase' = "expanding"
  /\ UNCHANGED <<item, out, steps, n, frame, result, trace, diag>>

InvokeVecStrs ==
  \/ \E es \in SeqsUpTo(DisplayExprs, MaxArgs), t \in BOOLEAN :
       Start("vec_strs", Trailing(CommaList(es), t))
  \/ Start("vec_strs", MainVecStrs)

InvokeVector ==
  \/ \E es \in SeqsUpTo(IntExprs, MaxArgs), t \in BOOLEAN :
       Start("vector", Trailing(CommaList(es), t))
  \/ \E e \in IntExprs, c \in {Lit(0), Lit(3), Tick, Add(1, 2)} :
       Start("vector", <<TExpr(e), Semi, TExpr(c)>>)
  \/ Start("vector", MainVector)

InvokeRepeatTwo ==
  \/ \E is \in IdentSeqs, i2s \in IdentSeqs, sep \in {<<>>, <<Comma>>, <<Semi>>} :
       Start("repeat_two", is \o sep \o i2s)
  \/ Start("repeat_two", MainRepeatTwo)
  \/ Start("repeat_two", MainRepeatTwoBad)

Expanded(o) ==
  /\ out' = o
  /\ toks' = <<>>
  /\ phase' = "expanded"
  /\ UNCHANGED <<macro, call, item, steps, n, frame, result, trace, diag>>

Failed(d) ==
  /\ diag' = d
  /\ phase' = "failed"
  /\ UNCHANGED <<macro, call, toks, item, out, steps, n, frame, result, trace>>

ExpandVecStrs ==
  /\ macro = "vec_strs"
  /\ phase = "expanding"
  /\ IF VecStrsMatches(toks)
       THEN Expanded(VecStrsTemplate(VecStrsBindings(toks)))
       ELSE Failed(NoRule)

ExpandVector ==
  /\ macro = "vector"
  /\ phase = "expanding"
  /\ IF VectorExpand(toks) # NoOut
       THEN Expanded(VectorExpand(toks))
       ELSE Failed(NoRule)

ExpandRepeatTwo ==
  /\ macro = "repeat_two"
  /\ phase = "expanding"
  /\ IF RepeatTwoMatches(toks)
       THEN LET r == RepeatTwoTemplate(RepeatTwoI(toks), RepeatTwoI2(toks))
            IN IF r.ok THEN Expanded([kind |-> "decls", decls |-> r.decls])
               ELSE Failed(r.diag)
       ELSE Failed(NoRule)

\* the block a vec_strs! or vector! invocation expanded to is evaluated
RunBlock ==
  /\ macro \in {"vec_strs", "vector"}
  /\ phase = "expanded"
  /\ LET r == ExecBlock(out.stmts, <<>>, n)
     IN /\ result' = r.vec
        /\ n' = r.n
  /\ phase' = "done"
  /\ UNCHANGED <<macro, call, toks, item, out, steps, frame, trace, diag>>

MainReverse == CommaList(<<Lit(1), Lit(3), Lit(5)>>)

InvokeReverseExprs ==
  \/ \E es \in SeqsUpTo(IntExprs, MaxArgs), t \in BOOLEAN :
       Start("reverse_exprs", Trailing(CommaList(es), t))
  \/ \E e \in IntExprs : Start("reverse_exprs", <<TExpr(e), Semi, TExpr(e)>>)
  \/ Start("reverse_exprs", MainReverse)

\* the proc macro runs once on the whole input
ExpandReverseExprs ==
  /\ macro = "reverse_exprs"
  /\ phase = "expanding"
  /\ LET r == reverse_exprs(toks)
     IN IF r.ok THEN Expanded(r.output)
        ELSE Failed(Diag("expected ,", 0, 0))

\* println!("{:?}", reversed) evaluates the emitted construct
RunReverseExprs ==
  /\ macro = "reverse_exprs"
  /\ phase = "expanded"
  /\ LET r == EvalParen(out.items, n)
     IN /\ result' = r.v
        /\ n' = r.n
  /\ phase' = "done"
  /\ UNCHANGED <<macro, call, toks, item, out, steps, frame, trace, diag>>

FieldNames == {"x", "y", "z"}

DistinctSeqs(S, k) == {s \in SeqsUpTo(S, k) : \A i, j \in 1..Len(s) : s[i] = s[j] => i = j}

TypeNames == {"f64"}

Fields(shape, names) == [shape |-> shape, names |-> names]

FieldShapes ==
  {Fields("named", s) : s \in DistinctSeqs(FieldNames, MaxFields)}
    \cup {Fields("unnamed", s) : s \in SeqsUpTo(TypeNames, MaxFields)}
    \cup {Fields("unit", <<>>)}

DeriveInput(ident, data, fields) == [ident |-> ident, data |-> data, fields |-> fields]

\* the declarations main.rs derives MyDebug for
Point == DeriveInput("Point", "struct", Fields("named", <<"x", "y">>))
Coords == DeriveInput("Coords", "struct", Fields("unnamed", <<"f64", "f64">>))
Empty == DeriveInput("Empty", "struct", Fields("unit", <<>>))

InvokeMyDebug ==
  /\ phase = "idle"
  /\ \/ \E id \in {"Point", "Shape"}, data \in {"struct", "enum", "union"}, f \in FieldShapes :
          item' = DeriveInput(id, data, f)
     \/ item' \in {Point, Coords, Empty}
  /\ macro' = "MyDebug"
  /\ phase' = "expanding"
  /\ UNCHANGED <<call, toks, out, steps, n, frame, result, trace, diag>>

ExpandMyDebug ==
  /\ macro = "MyDebug"
  /\ phase = "expanding"
  /\ LET r == my_debug_derive(item)
     IN IF r.ok THEN Expanded(r.code) ELSE Failed(r.diag)

ItemFn(name, block, checks) == [kind |-> "fn", name |-> name, block |-> block, checks |-> checks]

\* calculate_sum of main.rs, and functions of the same signature whose
\* blocks return early or have an effect
Functions ==
  {<<"calculate_sum", <<"a + b">>>>,
   <<"guarded_sum", <<"return 0 if a < 0", "a + b">>>>,
   <<"counted_sum", <<"tick", "a + b">>>>}

InvokeLogCall ==
  /\ phase = "idle"
  /\ \/ \E f \in Functions, checks \in BOOLEAN : item' = ItemFn(f[1], f[2], checks)
     \/ item' = [kind |-> "struct", name |-> "Point", block |-> <<>>, checks |-> FALSE]
  /\ macro' = "log_call"
  /\ phase' = "expanding"
  /\ UNCHANGED <<call, toks, out, steps, n, frame, result, trace, diag>>

ExpandLogCall ==
  /\ macro = "log_call"
  /\ phase = "expanding"
  /\ IF item.kind = "fn" THEN Expanded(log_call(item))
     ELSE Failed(Diag("expected fn", 0, 0))

ArgValues == {-1, 3, 9, I32Max}

\* the program calls the wrapped function
CallWrapped ==
  /\ macro = "log_call"
  /\ phase = "expanded"
  /\ \E a \in ArgValues, b \in ArgValues :
       frame' = [pc |-> 1, a |-> a, b |-> b, res |-> UnitVal]
  /\ phase' = "running"
  /\ UNCHANGED <<macro, call, toks, item, out, steps, n, result, trace, diag>>

\* the statement of the emitted body at frame.pc runs
StepWrapped ==
  /\ macro = "log_call"
  /\ phase = "running"
  /\ LET st == IF frame.pc <= Len(out.body) THEN out.body[frame.pc] ELSE FallOff
         r == EvalBlock(st.block, frame.a, frame.b, n, out.checks)
     IN IF st.s = "println"
          THEN /\ trace' = Append(trace, Event(st.line, st.fn))
               /\ frame' = [frame EXCEPT !.pc = @ + 1]
               /\ UNCHANGED <<phase, result, n>>
        ELSE IF st.s = "let result" /\ r.ctl = "value"
          THEN /\ frame' = [frame EXCEPT !.pc = @ + 1, !.res = r.v]
               /\ trace' = Append(trace, Event("body", out.name))
               /\ n' = r.n
               /\ UNCHANGED <<phase, result>>
        ELSE IF st.s = "let result" /\ r.ctl = "return"
          THEN /\ result' = r.v
               /\ phase' = "done"
               /\ trace' = trace \o <<Event("body", out.name), Event("return", out.name)>>
               /\ n' = r.n
               /\ UNCHANGED frame
        ELSE IF st.s = "let result"
          THEN /\ phase' = "panicked"
               /\ trace' = Append(trace, Event("body", out.name))
               /\ n' = r.n
               /\ UNCHANGED <<frame, result>>
        ELSE /\ result' = IF st.s = "result" THEN frame.res ELSE UnitVal
             /\ phase' = "done"
             /\ trace' = Append(trace, Event("return", out.name))
             /\ UNCHANGED <<frame, n>>
  /\ UNCHANGED <<macro, call, toks, item, out, steps, diag>>

Next ==
  \/ InvokeReverseExprs
  \/ ExpandReverseExprs
  \/ RunReverseExprs
  \/ InvokeMyDebug
  \/ ExpandMyDebug
  \/ InvokeLogCall
  \/ ExpandLogCall
  \/ CallWrapped
  \/ StepWrapped
  \/ InvokeVecStrs
  \/ ExpandVecStrs
  \/ InvokeVector
  \/ ExpandVector
  \/ InvokeRepeatTwo
  \/ ExpandRepeatTwo
  \/ RunBlock
  \/ InvokeFindMin
  \/ ExpandFindMin
  \/ RunFindMin

Spec == Init /\ [][Next]_vars

\* the compiler expands a pending invocation until none is left
FairSpec == Spec /\ WF_vars(ExpandFindMin)

\* ================================================================ claims
\* ts is a comma-separated list of n >= 0 expressions, with or without a
\* comma after the last
IsList(ts) == Len(ts) = 0 \/ IsSeparated(DropTrailingComma(ts), Comma)

\* the expressions e1, ..., en of such a list
ListArgs(ts) == IF Len(ts) = 0 THEN <<>> ELSE Elements(DropTrailingComma(ts))

\* the values of the arguments written in `call`, each evaluated once, in order
CallValues == EvalAll(ListArgs(call), 0).vals

Least(S) == CHOOSE m \in S : \A x \in S : m <= x

\* C1: find_min!(e1, ..., en) with n >= 1 expands, and its value is the least
\* of the values of e1, ..., en.
C1_FindMinIsMinimum ==
  (macro = "find_min" /\ IsSeparated(call, Comma)) =>
    /\ phase # "failed"
    /\ phase = "done" =>
         /\ result.ty = "int"
         /\ result.v = Least({CallValues[i].v : i \in 1..Len(CallValues)})

\* find_min!(5, 2 * 3, 4) has run and its value is 4
C1_Witness ==
  /\ macro = "find_min"
  /\ phase = "done"
  /\ call = CommaList(<<Lit(5), Mul(2, 3), Lit(4)>>)
  /\ result = IntVal(4)

\* C2: reverse_exprs! on a list of n >= 0 expressions emits a parenthesized
\* construct of the same n expressions in reversed order; one expression gives
\* that expression's value, none gives ().
C2_ReverseExprsReverses ==
  (macro = "reverse_exprs" /\ IsList(call) /\ phase # "expanding") =>
    LET es == ListArgs(call)
    IN /\ phase \in {"expanded", "done"}
       /\ out.kind = "paren"
       /\ Len(out.items) = Len(es)
       /\ \A i \in 1..Len(es) : out.items[i] = es[Len(es) + 1 - i]
       /\ (phase = "done" /\ Len(es) = 0) => result = UnitVal
       /\ (phase = "done" /\ Len(es) = 1) => result = Eval(es[1], 0).v
       /\ (phase = "done" /\ Len(es) > 1) => result.ty = "tuple"

\* reverse_exprs!(1, 3, 5) has emitted (5, 3, 1)
C2_Witness ==
  /\ macro = "reverse_exprs"
  /\ phase = "done"
  /\ call = MainReverse
  /\ out.items = <<Lit(5), Lit(3), Lit(1)>>

\* C3: for a struct, the body of the generated my_fmt is the opening marker,
\* one print statement per field in declaration order (by name for named
\* fields, by index 0..k-1 for positional ones; the single "(unit struct)"
\* statement for a unit struct), and the closing marker.
C3_MyDebugEnumeratesFields ==
  (macro = "MyDebug" /\ item.data = "struct" /\ phase # "expanding") =>
    LET k == Len(item.fields.names)
        between == SubSeq(out.body, 2, Len(out.body) - 1)
    IN /\ phase = "expanded"
       /\ out.kind = "impl" /\ out.trait = "MyDebug" /\ out.for = item.ident
       /\ out.body[1] = PrintStmt("print", "{}: {{ ", <<Stringify(item.ident)>>)
       /\ out.body[Len(out.body)] = PrintStmt("println", "}}", <<>>)
       /\ item.fields.shape = "named" =>
            /\ Len(between) = k
            /\ \A i \in 1..k :
                 between[i].args = <<Stringify(item.fields.names[i]), SelfField(item.fields.names[i])>>
       /\ item.fields.shape = "unnamed" =>
            /\ Len(between) = k
            /\ \A i \in 1..k : between[i].args = <<Usize(i - 1), SelfIndex(i - 1)>>
       /\ item.fields.shape = "unit" =>
            between = <<PrintStmt("print", "(unit struct)", <<>>)>>

\* the derive has run on Coords(f64, f64): its second statement reads self.1
C3_Witness ==
  /\ macro = "MyDebug"
  /\ phase = "expanded"
  /\ item = Coords
  /\ out.body[3].args = <<Usize(1), SelfIndex(1)>>

\* C4: MyDebug on a declaration that is not a struct fails with "MyDebug can
\* only be derived for structs" and emits no implementation block.
C4_MyDebugRejectsNonStructs ==
  (macro = "MyDebug" /\ item.data # "struct") =>
    /\ out = NoOut
    /\ phase \in {"expanding", "failed"}
    /\ phase = "failed" => diag.msg = "MyDebug can only be derived for structs"

\* the derive has failed on an enum
C4_Witness ==
  /\ macro = "MyDebug"
  /\ item.data = "enum"
  /\ phase = "failed"
  /\ diag = StructsOnly

\* the events of a call of the wrapped function that ran to its end
FullTrace(fn) ==
  <<Event("Calling function", fn), Event("body", fn),
    Event("Function returned", fn), Event("return", fn)>>

\* C5: every call of a wrapped function that returns has produced, in this
\* order, the "Calling function" line, the evaluation of the body, the
\* "Function returned" line and the return, both lines naming the function.
C5_LogCallOrder ==
  (macro = "log_call" /\ phase = "done") => trace = FullTrace(item.name)

\* C6: a call of the wrapped function returns exactly when the call of the
\* function as written returns, with the same value and the same effect;
\* calculate_sum(3, 9) returns 12.
C6_LogCallPreservesValue ==
  (macro = "log_call" /\ phase \in {"done", "panicked"}) =>
    LET plain == CallPlain(item, frame.a, frame.b, 0)
    IN /\ (phase = "done") = plain.returns
       /\ phase = "done" => (result = plain.v /\ n = plain.n)
       /\ (phase = "done" /\ item.name = "calculate_sum" /\ frame.a = 3 /\ frame.b = 9) =>
            result = IntVal(12)

\* the wrapped calculate_sum(3, 9) has returned 12
C6_Witness ==
  /\ macro = "log_call"
  /\ phase = "done"
  /\ item.name = "calculate_sum"
  /\ frame.a = 3 /\ frame.b = 9
  /\ result = IntVal(12)

\* the two identifier groups of a repeat_two! invocation, as written
LeftGroup == SubSeq(call, 1, FirstComma(call) - 1)
RightGroup == SubSeq(call, FirstComma(call) + 1, Len(call))

\* C7: repeat_two! on groups of different lengths fails with the repeat-count
\* error and emits nothing; on groups of one length n it emits n pairs of
\* declarations, the i-th pair of the i-th identifier of each group.
C7_RepeatTwoLockstep ==
  (macro = "repeat_two" /\ RepeatTwoMatches(call) /\ phase # "expanding") =>
    IF Len(LeftGroup) # Len(RightGroup)
      THEN /\ phase = "failed"
           /\ out = NoOut
           /\ diag = Mismatch(Len(LeftGroup), Len(RightGroup))
      ELSE /\ phase = "expanded"
           /\ Len(out.decls) = 2 * Len(LeftGroup)
           /\ \A i \in 1..Len(LeftGroup) :
                /\ out.decls[2 * i - 1] = Let(LeftGroup[i].id)
                /\ out.decls[2 * i] = Let(RightGroup[i].id)

\* repeat_two!(a b c d e f, x y z) has failed: 6 repeats against 3
C7_Witness ==
  /\ macro = "repeat_two"
  /\ call = MainRepeatTwoBad
  /\ phase = "failed"
  /\ diag.a = 6 /\ diag.b = 3

\* c copies of v
Copies(v, c) == [i \in 1..c |-> v]

\* C8: vector![e1, ..., en] is the sequence of the values of e1, ..., en, and
\* vector![e; c] is a sequence of c elements (c the value of the count), each
\* equal to the value of e.
C8_VectorIsReference ==
  (macro = "vector" /\ phase = "done") =>
    IF Len(call) = 3 /\ call[2] = Semi
      THEN result = Copies(Eval(call[1].e, 0).v, Eval(call[3].e, 0).v.v)
      ELSE result = CallValues

\* C9: vec_strs! on n >= 0 expressions expands, and yields n strings, the
\* i-th the display formatting of the value of the i-th expression;
\* vec_strs![1, "a", true, 3.14159f32] is ["1", "a", "true", "3.14159"].
C9_VecStrsFormatsEach ==
  (macro = "vec_strs" /\ VecStrsMatches(call)) =>
    /\ phase # "failed"
    /\ phase = "done" =>
         /\ Len(result) = Len(CallValues)
         /\ \A i \in 1..Len(result) : result[i] = StrVal(Display(CallValues[i]))
         /\ call = MainVecStrs =>
              result = <<StrVal(<<"1">>), StrVal(<<"a">>), StrVal(<<"t", "r", "u", "e">>),
                         StrVal(<<"3", ".", "1", "4", "1", "5", "9">>)>>

\* vec_strs![1, "a", true, 3.14159f32] has run
C9_Witness ==
  /\ macro = "vec_strs"
  /\ phase = "done"
  /\ call = MainVecStrs
  /\ result[4] = StrVal(<<"3", ".", "1", "4", "1", "5", "9">>)

ArgCount(ts) == (Len(ts) + 1) \div 2

\* C10: every recursive step of find_min! re-invokes it with one argument
\* fewer, and the expansion of find_min!(e1, ..., en), n >= 1, ends after n - 1
\* recursive steps with the base rule, no invocation remaining.
C10_FindMinTerminates ==
  /\ [][(macro = "find_min" /\ phase = "expanding" /\ phase' = "expanding") =>
          (IsSeparated(toks', Comma) /\ ArgCount(toks') = ArgCount(toks) - 1)]_vars
  /\ [](((macro = "find_min" /\ IsSeparated(call, Comma) /\ phase = "expanding")) =>
          <>(phase = "expanded" /\ toks = <<>> /\ steps = ArgCount(call) - 1))

\* find_min! of three arguments is expanded after two recursive steps
C10_Witness ==
  /\ macro = "find_min"
  /\ phase = "expanded"
  /\ ArgCount(call) = 3
  /\ steps = 2
  /\ toks = <<>>
====
